---- MODULE Spec2Model ----
(***************************************************************************)
(* Task orchestration core of the analysis service:                        *)
(*   - TaskManager   (src/api_service/task_manager.py): the task registry  *)
(*     and the cache locator;                                              *)
(*   - TaskProcessor (src/api_service/task_processor.py): the pipeline     *)
(*     runner, one thread per started task;                                *)
(*   - COSDownloader.download_files (src/api_service/cos_downloader.py):   *)
(*     the storage fetch, one step per listed object.                      *)
(* None (Python) is NULL.  Strings that the code only passes around        *)
(* (messages, error texts, prompts) are tokens.  A cos_path is a sequence  *)
(* of characters, so that get_cache_dir is computed as the code does.      *)
(***************************************************************************)
EXTENDS Integers, Sequences, FiniteSets, TLC

\* ------------------------------------------------------------ bounds
\* Number of tasks ever created in one run of the service.
MaxTasks == 2

\* ------------------------------------------------- program constants
\* task_processor.py:84  "len(png_files) > 30"
MaxImages == 30

NULL == "None"

\* ------------------------------------------------------------ TaskStatus
PENDING == "pending"
DOWNLOADING == "downloading"
ANALYZING == "analyzing"
MERGING == "merging"
COMPLETED == "completed"
FAILED == "failed"

TaskStatus == {PENDING, DOWNLOADING, ANALYZING, MERGING, COMPLETED, FAILED}

\* ------------------------------------------------------------ Task
\* The attributes Task.__init__ assigns.  A read of any other attribute of
\* a Task raises AttributeError.
TaskAttrs ==
  {"task_id", "cos_path", "prompt", "status", "created_at", "updated_at",
   "progress", "message", "error", "result_file", "cache_used"}

HasAttr(name) == name \in TaskAttrs

\* Mutant: result_file starts as the empty string instead of None.
NewTaskEmptyResult(task_id, cos_path, prompt) ==
  [task_id     |-> task_id,
   cos_path    |-> cos_path,
   prompt      |-> prompt,
   status      |-> PENDING,
   progress    |-> 0,
   message     |-> "",
   error       |-> NULL,
   result_file |-> "",
   cache_used  |-> FALSE]

\* Task(task_id, cos_path, prompt): the record after __init__.
\* (created_at / updated_at are wall-clock strings no operation reads.)
NewTask(task_id, cos_path, prompt) ==
  [task_id     |-> task_id,
   cos_path    |-> cos_path,
   prompt      |-> prompt,
   status      |-> PENDING,
   progress    |-> 0,
   message     |-> "",
   error       |-> NULL,
   result_file |-> NULL,
   cache_used  |-> FALSE]

\* ------------------------------------------------------------ inputs
TaskIds == 1..MaxTasks
Prompts == {"p"}

\* cos_path values the clients submit, as character sequences.
RefBig    == <<"a">>
RefMixed  == <<"c", "/", "d">>
RefBroken == <<"c", "_", "d">>
RefEmpty  == <<"/", "e", "/">>
SourceRefs == {RefBig, RefMixed, RefBroken, RefEmpty}

\* A prefix that holds more PNG files than the size guard admits, all of
\* them in a sub-directory.
RefDeep == <<"f">>
KnownRefs == SourceRefs \cup {RefDeep}

\* A stored object: the number that names it, its extension, whether its
\* key lies in a sub-directory of the prefix, and how download_file fares on
\* it: "yes" (returns True), "no" (returns False), "flaky" (either, call by
\* call).
Obj(n, ext, sub, ok) == [n |-> n, ext |-> ext, sub |-> sub, ok |-> ok]

\* The results download_file can give for an object.
DownloadOutcomes(o) ==
  CASE o.ok = "yes" -> {TRUE}
    [] o.ok = "no"  -> {FALSE}
    [] OTHER        -> {TRUE, FALSE}

\* What list_target_files returns for each prefix (the bucket is not changed
\* by the service: it only reads the inputs).  RefBig lists one PNG more
\* than the size guard admits, and the download of the last one may fail.
\* The only PNG of RefBroken lies in a sub-directory of the prefix.
RemoteListing ==
  [ref \in KnownRefs |->
     CASE ref = RefBig    -> [i \in 1..(MaxImages + 1) |->
                                Obj(i, "png", FALSE,
                                    IF i <= MaxImages THEN "yes" ELSE "flaky")]
       [] ref = RefMixed  -> << Obj(201, "png", FALSE, "yes"),
                                Obj(1201, "json", FALSE, "yes"),
                                Obj(202, "png", TRUE, "yes"),
                                Obj(203, "png", FALSE, "no") >>
       [] ref = RefBroken -> << Obj(301, "png", TRUE, "flaky"),
                                Obj(1301, "json", FALSE, "yes") >>
       [] ref = RefDeep   -> [i \in 1..(MaxImages + 1) |->
                                Obj(400 + i, "png", TRUE, "yes")]
       [] OTHER           -> << >>]

\* A local file is named by the number of the object it was downloaded from
\* (local_path keeps the key's relative path, and with it the extension and
\* the sub-directory).
AllObjects ==
  UNION {{RemoteListing[r][i] : i \in DOMAIN RemoteListing[r]} : r \in KnownRefs}

PngNumbers == {o.n : o \in {x \in AllObjects : x.ext = "png"}}
SubdirNumbers == {o.n : o \in {x \in AllObjects : x.sub}}

LocalFile(o) == o.n
IsPng(f) == f \in PngNumbers
InSubdir(f) == f \in SubdirNumbers

\* json_path of batch_analyze_images: the JSON file in the output directory
\* with the image's base name.  The object numbered n + 1000 is the JSON
\* file with the base name of image n.
JsonFor(f) == f + 1000

\* ------------------------------------------------------------ state
VARIABLES
  tasks,    \* TaskManager.tasks: task_id -> Task
  cache,    \* the file system under cache_root: cache dir -> set of files
  runner,   \* per task id: the local state of its process_task thread
  obs,      \* per task id: what its run has done so far (observations)
  doc,      \* the content of storage_file (tasks.json)
  env,      \* the process and its disk: "up", "open_fails", "write_fails", "dead"
  last,     \* the last call made on the registry or the front door, and its outcome
  upd,      \* the update_task call that holds the lock, and how far it got
  req,      \* the request thread serving GET /analysis/<task_id>
  merge,    \* a call of GeminiAnalyzer.merge_and_analyze_json
  batch     \* a call of GeminiAnalyzer.batch_analyze_images

vars == << tasks, cache, runner, obs, doc, env, last, upd, req, merge, batch >>

\* The threads the runner and registry actions do not touch.
side == << upd, req, merge, batch >>

\* ------------------------------------------------------------ cache locator
\* str.strip('/'): drop every leading and trailing "/".
RECURSIVE LStrip(_)
LStrip(s) == IF s # << >> /\ Head(s) = "/" THEN LStrip(Tail(s)) ELSE s

RECURSIVE RStrip(_)
RStrip(s) ==
  IF s # << >> /\ s[Len(s)] = "/" THEN RStrip(SubSeq(s, 1, Len(s) - 1)) ELSE s

Strip(s) == RStrip(LStrip(s))

\* '_'.join(cos_path.strip('/').split('/')): every remaining "/" becomes "_".
\* The result names the directory under cache_root.
GetCacheDir(cos_path) ==
  LET t == Strip(cos_path)
  IN  [i \in 1..Len(t) |-> IF t[i] = "/" THEN "_" ELSE t[i]]

CacheDirs == {GetCacheDir(r) : r \in KnownRefs}

\* os.listdir(cache_dir) filtered by '.png': the files directly in the
\* directory.  A directory that does not exist holds nothing.
TopLevelPngs(files) == {f \in files : IsPng(f) /\ ~InSubdir(f)}

\* os.walk(cache_dir) filtered by '.png': the files at any depth.
AllPngs(files) == {f \in files : IsPng(f)}

CheckCacheExists(dir) == Cardinality(TopLevelPngs(cache[dir])) > 0

\* sorted(png_files): ascending by path; the file numbers stand for the
\* paths and their order.
FileKey(f) == f

\* The i-th element of the sorted list is the file with i - 1 files before it.
SortFiles(S) ==
  [i \in 1..Cardinality(S) |->
     CHOOSE f \in S : Cardinality({g \in S : FileKey(g) < FileKey(f)}) = i - 1]

GetCachedPngFiles(dir) == SortFiles(AllPngs(cache[dir]))

\* ------------------------------------------------------------ registry
\* The keyword arguments of one update_task call are a record kw holding the
\* arguments passed; an argument left out is None, and so is one passed as
\* None.  None never overwrites a field.
UpdateArgs == {"status", "progress", "message", "error", "result_file", "cache_used"}

\* Mutant: the arguments are tested for truth ("if progress:"), so 0, False
\* and "" are taken for arguments left out.
SuppliedTruthy(kw, k) ==
  /\ k \in DOMAIN kw
  /\ CASE k = "progress"   -> kw[k] # 0
       [] k = "cache_used" -> kw[k]
       [] OTHER            -> kw[k] \notin {NULL, ""}

Supplied(kw, k) ==
  /\ k \in DOMAIN kw
  /\ k \in {"status", "message", "error", "result_file"} => kw[k] # NULL

\* update_task under the lock, for a known task: only the arguments that
\* are not None are assigned (a TaskStatus member is always truthy).
UpdateFields(task, kw) ==
  [k \in DOMAIN task |->
     IF k \in UpdateArgs /\ Supplied(kw, k) THEN kw[k] ELSE task[k]]

\* update_task: an unknown id leaves the registry as it is.
UpdateTask(ts, id, kw) ==
  IF id \notin DOMAIN ts THEN ts
  ELSE [ts EXCEPT ![id] = UpdateFields(@, kw)]

\* ------------------------------------------------------------ persistence
\* storage_file either does not exist, or holds the JSON document
\* {"tasks": [...]}, or holds text json.load rejects (an empty or cut-off
\* file).
NoFile == [kind |-> "none", list |-> << >>]
Truncated == [kind |-> "cut", list |-> << >>]
Document(list) == [kind |-> "json", list |-> list]

\* to_dict: the keys written for a task.  status.value is the string of the
\* member; the members are modelled by their values.
ToDict(task) ==
  [task_id     |-> task.task_id,
   cos_path    |-> task.cos_path,
   prompt      |-> task.prompt,
   status      |-> task.status,
   progress    |-> task.progress,
   message     |-> task.message,
   error       |-> task.error,
   result_file |-> task.result_file,
   cache_used  |-> task.cache_used]

\* dict.get(key, default)
Get(d, key, default) == IF key \in DOMAIN d THEN d[key] ELSE default

\* from_dict raises on a record whose status is not a value of TaskStatus
\* (ValueError) or that lacks a key read with data[...] (KeyError).
FromDictRaises(d) ==
  \/ {"task_id", "cos_path", "prompt", "status", "progress", "message"} \ DOMAIN d # {}
  \/ d.status \notin TaskStatus

FromDict(d) ==
  [NewTask(d.task_id, d.cos_path, d.prompt) EXCEPT
     !.status      = d.status,
     !.progress    = d.progress,
     !.message     = d.message,
     !.error       = Get(d, "error", NULL),
     !.result_file = Get(d, "result_file", NULL),
     !.cache_used  = Get(d, "cache_used", FALSE)]

\* self.tasks is a dict: values() come in insertion order, the tasks loaded
\* at startup (ids above 100) before the tasks created since.
InsertionOrder == << 101, 102 >> \o [i \in TaskIds |-> i]

\* [task.to_dict() for task in self.tasks.values()]
Snapshot(ts) ==
  LET kept == SelectSeq(InsertionOrder, LAMBDA id : id \in DOMAIN ts)
  IN  [i \in DOMAIN kept |-> ToDict(ts[kept[i]])]

\* _save_tasks in a process whose disk is healthy writes the snapshot; if
\* open() raises the file is left as it was; if the write raises after
\* open(..., 'w') truncated the file, what is left is not a document.  The
\* except clause of _save_tasks prints the exception and returns.
SaveTasks(ts) ==
  CASE env = "open_fails"  -> doc
    [] env = "write_fails" -> Truncated
    [] OTHER               -> Document(Snapshot(ts))

\* The position of the first record from_dict raises on (0 if none).
FirstRaising(d) ==
  IF \E i \in DOMAIN d : FromDictRaises(d[i])
    THEN CHOOSE i \in DOMAIN d :
           FromDictRaises(d[i]) /\ \A j \in 1..(i - 1) : ~FromDictRaises(d[j])
    ELSE 0

\* _load_tasks: no file, nothing loaded; otherwise the records are loaded
\* one by one inside a single try block, so the first exception (json.load
\* on a file that is no document, from_dict on a record) ends the loop and
\* keeps what was loaded before it.
LoadTasks(file) ==
  IF file.kind # "json" THEN << >>
  ELSE LET d == file.list
           n == IF FirstRaising(d) = 0 THEN Len(d) ELSE FirstRaising(d) - 1
           at(id) == CHOOSE i \in 1..n :
                       d[i].task_id = id /\ \A j \in (i + 1)..n : d[j].task_id # id
       IN  [id \in {d[i].task_id : i \in 1..n} |-> FromDict(d[at(id)])]

\* The in-memory registry becomes ts and _save_tasks runs (the end of
\* create_task and of update_task on a known id).
Commit(ts) ==
  /\ tasks' = ts
  /\ doc' = SaveTasks(tasks')

\* The number of PNG files stage 1 ended with, as far as the size guard and
\* the empty check tell them apart.
YieldClass(png_files) ==
  CASE Len(png_files) = 0         -> "empty"
    [] Len(png_files) < MaxImages -> "under"
    [] Len(png_files) = MaxImages -> "limit"
    [] OTHER                      -> "over"

IdleRunner == [pc |-> "idle", i |-> 0, png_files |-> << >>]

\* process_task has returned: the thread and its locals are gone.
DoneRunner == [pc |-> "done", i |-> 0, png_files |-> << >>]

NoObs ==
  [path     |-> "none",   \* which branch stage 1 took: "cache" or "fetch"
   held     |-> FALSE,    \* the cache directory held PNG files when stage 1 began
   fetches  |-> 0,        \* calls of download_files
   yield    |-> "none",   \* how many PNG files stage 1 obtained (YieldClass)
   stage2   |-> FALSE,    \* the update that begins stage 2 was made
   analyzer |-> FALSE,    \* GeminiAnalyzer() was constructed
   external |-> FALSE,    \* update_task was called on it by another caller
   raised   |-> NULL,     \* the exception process_task caught
   handled  |-> 0,        \* updates made by the except clause
   analyzed |-> {},       \* files analyze_image was invoked on
   output   |-> << >>]    \* json_files returned by batch_analyze_images

\* No id: the call took or returned none.
NoId == -1

\* No call has been made yet.
NoCall ==
  [op     |-> "none",   \* "create_task", "update_task" or "create_analysis"
   id     |-> NoId,     \* the id passed to update_task or returned by create_task
   kw     |-> << >>,    \* the other arguments of the call
   saved  |-> FALSE,    \* _save_tasks ran in the call and wrote the document
   raised |-> NULL,     \* the exception the call raised to its caller
   calls  |-> 0,        \* update_task calls made from outside the runner
   code   |-> 0,        \* the HTTP status of the response, if the call was a request
   body   |-> << >>]    \* the JSON body of the response

\* The service starts with no storage_file and an empty cache root.
\* No update_task call is inside its "with self.lock" block.
NoUpdate == [id |-> NoId, kw |-> << >>, at |-> 0, script |-> << >>, done |-> 0]

\* No request is being served.
NoRequest == [pc |-> "idle", id |-> NoId, at |-> 0, seen |-> << >>]

\* merge_and_analyze_json has not been called.
NoMerge ==
  [pc      |-> "idle",  \* "streaming", "fallback", "write", "returned", "raised"
   jsons   |-> 0,       \* how many of json_files hold valid JSON
   stream  |-> << >>,   \* the chunks the streaming call would deliver
   plain   |-> << >>,   \* the text the non-streaming call would answer
   chunks  |-> << >>,   \* the local list chunks
   streams |-> 0,       \* generate_content_stream calls made
   plains  |-> 0,       \* generate_content calls made
   output  |-> << >>,   \* what was written to output_file
   raised  |-> NULL]    \* the exception that left the function

\* batch_analyze_images has not been called.
NoBatch ==
  [pc          |-> "idle",  \* "loop" or "returned"
   image_paths |-> << >>,   \* the argument image_paths
   force       |-> FALSE,   \* the argument force_reanalyze
   i           |-> 0,       \* the loop index
   files       |-> {},      \* the JSON files in output_dir
   json_files  |-> << >>,   \* the local list json_files
   analyzed    |-> << >>]   \* the images analyze_image was called on

Init ==
  /\ tasks = << >>
  /\ cache = [d \in CacheDirs |-> {}]
  /\ runner = [t \in TaskIds |-> IdleRunner]
  /\ obs = [t \in TaskIds |-> NoObs]
  /\ doc = NoFile
  /\ env = "up"
  /\ last = NoCall
  /\ upd = NoUpdate
  /\ req = NoRequest
  /\ merge = NoMerge
  /\ batch = NoBatch

\* Mutant: _save_tasks has no except clause, a failed write raises out of
\* create_task and no id is returned.
CreateTaskPropagates(cos_path, prompt) ==
  LET task_id == Cardinality(DOMAIN tasks \cap TaskIds) + 1
  IN  /\ env # "dead"
      /\ task_id \in TaskIds
      /\ Commit((task_id :> NewTask(task_id, cos_path, prompt)) @@ tasks)
      /\ last' = [NoCall EXCEPT !.op = "create_task",
                                !.id = IF env = "up" THEN task_id ELSE NoId,
                                !.kw = [cos_path |-> cos_path, prompt |-> prompt],
                                !.saved = (env = "up"),
                                !.raised = IF env = "up" THEN NULL ELSE "OSError",
                                !.calls = last.calls]
      /\ UNCHANGED << cache, runner, obs, env, side >>

\* create_task(cos_path, prompt): uuid4 is a fresh id.
CreateTask(cos_path, prompt) ==
  LET task_id == Cardinality(DOMAIN tasks \cap TaskIds) + 1
  IN  /\ env # "dead"
      /\ task_id \in TaskIds
      /\ Commit((task_id :> NewTask(task_id, cos_path, prompt)) @@ tasks)
      /\ last' = [NoCall EXCEPT !.op = "create_task", !.id = task_id,
                                !.kw = [cos_path |-> cos_path, prompt |-> prompt],
                                !.saved = (env = "up"), !.calls = last.calls]
      /\ UNCHANGED << cache, runner, obs, env, side >>

\* start_task(task_id): a new thread that runs process_task(task_id).
StartTask(t) ==
  /\ t \in DOMAIN tasks
  /\ runner[t].pc = "idle"
  /\ runner' = [runner EXCEPT ![t].pc = "start"]
  /\ UNCHANGED << tasks, cache, obs, doc, env, last, side >>

\* ------------------------------------------------------------ runner
\* The exceptions process_task can meet, as the text str(e) gives.
ErrStorage   == "CosServiceError"
ErrNoPng     == "ValueError: no PNG files found"
ErrAnalyzer  == "analyzer construction failed"
ErrAttribute == "AttributeError: 'Task' object has no attribute 'force_reanalyze'"
ErrNoJson    == "ValueError: no valid JSON files"
ErrTooMany   == "image count exceeds the limit (30)"

TaskOf(t) == tasks[t]
DirOf(t) == GetCacheDir(tasks[t].cos_path)
ListingOf(t) == RemoteListing[tasks[t].cos_path]

\* Mutant: the fraction still to do is reported instead of the fraction done.
DownloadProgressRemaining(current, total) ==
  10 + ((30 * (total - current)) \div total)

\* download_progress(current, total, msg): int() truncates a non-negative
\* quotient, which is the integer division.
DownloadProgress(current, total) == 10 + ((30 * current) \div total)

\* Mutant: the stage is given sixty points of progress instead of forty.
AnalyzeProgressWide(current, total) == 40 + ((60 * current) \div total)

\* analyze_progress(current, total, msg)
AnalyzeProgress(current, total) == 40 + ((40 * current) \div total)

\* Mutant: the except clause puts the task back to PENDING for a retry.
TopLevelExceptRequeue(ts, t, e) ==
  UpdateTask(ts, t, [status |-> PENDING, message |-> "task failed", error |-> e])

\* Mutant: the except clause records the error but not the status.
TopLevelExceptNoStatus(ts, t, e) ==
  UpdateTask(ts, t, [message |-> "task failed", error |-> e])

\* Mutant: the except clause sets the status but drops the error text.
TopLevelExceptNoError(ts, t, e) ==
  UpdateTask(ts, t, [status |-> FAILED, message |-> "task failed"])

\* The except clause of process_task: one update_task call.
TopLevelExcept(ts, t, e) ==
  UpdateTask(ts, t, [status |-> FAILED, message |-> "task failed", error |-> e])

\* An exception e raised inside the try block of process_task(t) unwinds to
\* the except clause, whose update ends the run.
Raise(t, e) ==
  /\ Commit(TopLevelExcept(tasks, t, e))
  /\ runner' = [runner EXCEPT ![t] = DoneRunner]
  /\ obs' = [obs EXCEPT ![t].raised = e, ![t].handled = @ + 1]

\* Lines 27-55: get_task, check_cache_exists, and the first update of the
\* branch taken.
Stage1Begin(t) ==
  /\ runner[t].pc = "start"
  /\ IF CheckCacheExists(DirOf(t))
       THEN /\ Commit(UpdateTask(tasks, t,
                 [status |-> DOWNLOADING, progress |-> 10,
                  message |-> "using local cache", cache_used |-> TRUE]))
            /\ runner' = [runner EXCEPT ![t].pc = "cache_list"]
            /\ obs' = [obs EXCEPT ![t].path = "cache", ![t].held = AllPngs(cache[DirOf(t)]) # {}]
       ELSE /\ Commit(UpdateTask(tasks, t,
                 [status |-> DOWNLOADING, progress |-> 10,
                  message |-> "start download"]))
            /\ runner' = [runner EXCEPT ![t].pc = "fetch_call"]
            /\ obs' = [obs EXCEPT ![t].path = "fetch", ![t].held = AllPngs(cache[DirOf(t)]) # {}]
  /\ UNCHANGED << cache, env, last, side >>

\* Mutant: the runner waits for the downloads into the directory to end and
\* lists every PNG of the prefix.
CacheListAfterFetch(t) ==
  /\ runner[t].pc = "cache_list"
  /\ LET png_files == SortFiles({LocalFile(ListingOf(t)[i]) :
                                   i \in {j \in DOMAIN ListingOf(t) :
                                            ListingOf(t)[j].ext = "png"}})
     IN  /\ runner' = [runner EXCEPT ![t].pc = "guard", ![t].png_files = png_files]
         /\ obs' = [obs EXCEPT ![t].yield = YieldClass(png_files)]
  /\ UNCHANGED << tasks, doc, cache, env, last, side >>

\* Line 47: png_files = get_cached_png_files(cos_path).
CacheList(t) ==
  /\ runner[t].pc = "cache_list"
  /\ LET png_files == GetCachedPngFiles(DirOf(t))
     IN  /\ runner' = [runner EXCEPT ![t].pc = "guard", ![t].png_files = png_files]
         /\ obs' = [obs EXCEPT ![t].yield = YieldClass(png_files)]
  /\ UNCHANGED << tasks, doc, cache, env, last, side >>

\* Lines 58, 68 and download_files up to its loop: COSDownloader() and
\* list_target_files.  An empty listing returns at once with no PNG.
FetchCall(t) ==
  /\ runner[t].pc = "fetch_call"
  /\ runner' = [runner EXCEPT
       ![t].pc = IF ListingOf(t) = << >> THEN "fetch_return" ELSE "download",
       ![t].i = 1]
  /\ obs' = [obs EXCEPT ![t].fetches = @ + 1]
  /\ UNCHANGED << tasks, doc, cache, env, last, side >>

\* COSDownloader() or list_target_files raises (configuration, transport).
FetchRaises(t) ==
  /\ runner[t].pc = "fetch_call"
  /\ Raise(t, ErrStorage)
  /\ UNCHANGED << cache, env, last, side >>

\* One iteration of the loop of download_files (lines 295-328) on the
\* i-th key, with the progress callback it makes.
DownloadFile(t) ==
  /\ runner[t].pc = "download"
  /\ LET keys   == ListingOf(t)
         total  == Len(keys)
         i      == runner[t].i
         o      == keys[i]
         f      == LocalFile(o)
         exists == f \in cache[DirOf(t)]
     IN  \E ok \in (IF exists THEN {TRUE} ELSE DownloadOutcomes(o)) :
           /\ cache' = [cache EXCEPT ![DirOf(t)] = IF ok THEN @ \cup {f} ELSE @]
           /\ Commit(UpdateTask(tasks, t,
                [progress |-> DownloadProgress(i, total),
                 message |-> "download progress"]))
           /\ runner' = [runner EXCEPT
                ![t].png_files = IF ok /\ IsPng(f) THEN Append(@, f) ELSE @,
                ![t].i = i + 1,
                ![t].pc = IF i = total THEN "fetch_return" ELSE "download"]
  /\ UNCHANGED << obs, env, last, side >>

\* Mutant: the empty check is left out.
NoPngFoundUnchecked(png_files) == FALSE

\* Line 77: "if not png_files".
NoPngFound(png_files) == png_files = << >>

\* Lines 75-78: download_files has returned; no PNG among the downloaded
\* files is a ValueError.
FetchReturn(t) ==
  /\ runner[t].pc = "fetch_return"
  /\ IF NoPngFound(runner[t].png_files)
       THEN /\ Commit(TopLevelExcept(tasks, t, ErrNoPng))
            /\ runner' = [runner EXCEPT ![t] = DoneRunner]
            /\ obs' = [obs EXCEPT ![t].yield = YieldClass(runner[t].png_files),
                                  ![t].raised = ErrNoPng, ![t].handled = @ + 1]
       ELSE /\ runner' = [runner EXCEPT ![t].pc = "guard"]
            /\ obs' = [obs EXCEPT ![t].yield = YieldClass(runner[t].png_files)]
            /\ UNCHANGED << tasks, doc >>
  /\ UNCHANGED << cache, env, last, side >>

\* Mutant: the guard rejects the limit itself (>= for >).
TooManyImagesOffByOne(png_files) ==
  png_files # << >> /\ Len(png_files) >= MaxImages

\* Line 84: the condition of the size guard.
TooManyImages(png_files) == png_files # << >> /\ Len(png_files) > MaxImages

\* Lines 84-102: the size guard, and otherwise the update that begins
\* stage 2.
SizeGuard(t) ==
  /\ runner[t].pc = "guard"
  /\ IF TooManyImages(runner[t].png_files)
       THEN /\ Commit(UpdateTask(tasks, t,
                 [status |-> FAILED, progress |-> 0,
                  message |-> "too many images", error |-> ErrTooMany]))
            /\ runner' = [runner EXCEPT ![t] = DoneRunner]
            /\ UNCHANGED obs
       ELSE /\ Commit(UpdateTask(tasks, t,
                 [status |-> ANALYZING, progress |-> 40,
                  message |-> "start analysis"]))
            /\ runner' = [runner EXCEPT ![t].pc = "stage2"]
            /\ obs' = [obs EXCEPT ![t].stage2 = TRUE]
  /\ UNCHANGED << cache, env, last, side >>

\* Line 104: GeminiAnalyzer() raises.
AnalyzerRaises(t) ==
  /\ runner[t].pc = "stage2"
  /\ Raise(t, ErrAnalyzer)
  /\ UNCHANGED << cache, env, last, side >>

\* Lines 104-126: GeminiAnalyzer() is constructed, then the arguments of
\* batch_analyze_images are evaluated.  force_reanalyze=task.force_reanalyze
\* reads an attribute of the Task; a Task without it raises AttributeError
\* before batch_analyze_images is entered.  (The import of line 117 comes
\* first; were it to raise, the run would end in the same except clause.)
Stage2Call(t) ==
  /\ runner[t].pc = "stage2"
  /\ IF HasAttr("force_reanalyze")
       THEN /\ runner' = [runner EXCEPT ![t].pc = "batch", ![t].i = 1]
            /\ obs' = [obs EXCEPT ![t].analyzer = TRUE]
            /\ UNCHANGED << tasks, doc >>
       ELSE /\ Commit(TopLevelExcept(tasks, t, ErrAttribute))
            /\ runner' = [runner EXCEPT ![t] = DoneRunner]
            /\ obs' = [obs EXCEPT ![t].analyzer = TRUE, ![t].raised = ErrAttribute,
                                  ![t].handled = @ + 1]
  /\ UNCHANGED << cache, env, last, side >>

\* Only the first two tasks of a behaviour name the large reference.

Next ==
  \/ \E r \in SourceRefs, p \in Prompts :
        /\ (r = RefBig => Cardinality(DOMAIN tasks) < 2)
        /\ CreateTask(r, p)
  \/ \E t \in TaskIds : StartTask(t)
  \/ \E t \in TaskIds : Stage1Begin(t)
  \/ \E t \in TaskIds : CacheList(t)
  \/ \E t \in TaskIds : FetchCall(t)
  \/ \E t \in TaskIds : FetchRaises(t)
  \/ \E t \in TaskIds : DownloadFile(t)
  \/ \E t \in TaskIds : FetchReturn(t)
  \/ \E t \in TaskIds : SizeGuard(t)
  \/ \E t \in TaskIds : AnalyzerRaises(t)
  \/ \E t \in TaskIds : Stage2Call(t)

Spec == Init /\ [][Next]_vars

\* A step of the process_task thread of task t.
RunnerStep(t) ==
  \/ Stage1Begin(t)
  \/ CacheList(t)
  \/ FetchCall(t)
  \/ FetchRaises(t)
  \/ DownloadFile(t)
  \/ FetchReturn(t)
  \/ SizeGuard(t)
  \/ AnalyzerRaises(t)
  \/ Stage2Call(t)

\* The threads are scheduled fairly and every collaborator call returns or
\* raises: a runner that can take a step eventually takes one.  Under
\* fairness the large reference is named by the first task only; the other
\* tasks run next to it on the mixed and the empty reference.
FairRefs == {RefBig, RefMixed, RefEmpty}

NextFair ==
  \/ \E r \in FairRefs, p \in Prompts :
        /\ (r = RefBig => tasks = << >>)
        /\ CreateTask(r, p)
  \/ \E t \in TaskIds : StartTask(t)
  \/ \E t \in TaskIds : RunnerStep(t)

SpecFair == Init /\ [][NextFair]_vars /\ WF_vars(\E t \in TaskIds : RunnerStep(t))

\* ------------------------------------------------- the registry, open
\* update_task is a public method of the registry: any caller holding a
\* task id may call it.  SpecOpen adds one such caller next to the runners;
\* it makes a single call in a behaviour, passing a status and nothing else.
ExternalUpdate(t, status) ==
  /\ t \in DOMAIN tasks
  /\ \A u \in TaskIds : ~obs[u].external
  /\ Commit(UpdateTask(tasks, t, [status |-> status]))
  /\ obs' = [obs EXCEPT ![t].external = TRUE]
  /\ UNCHANGED << cache, runner, env, last, side >>

SmallRefs == {RefMixed, RefEmpty}

NextOpen ==
  \/ \E r \in SmallRefs, p \in Prompts : CreateTask(r, p)
  \/ \E t \in TaskIds : StartTask(t)
  \/ \E t \in TaskIds : RunnerStep(t)
  \/ \E t \in TaskIds, st \in TaskStatus : ExternalUpdate(t, st)

SpecOpen == Init /\ [][NextOpen]_vars

\* The program on prefixes whose images lie in sub-directories; only the
\* first two tasks of a behaviour name the large one.
DeepRefs == {RefDeep, RefMixed}

NextDeep ==
  \/ \E r \in DeepRefs, p \in Prompts :
        /\ (r = RefDeep => Cardinality(DOMAIN tasks) < 2)
        /\ CreateTask(r, p)
  \/ \E t \in TaskIds : StartTask(t)
  \/ \E t \in TaskIds : RunnerStep(t)

SpecDeep == Init /\ [][NextDeep]_vars


\* ------------------------------------------------- the registry, stored
\* SpecStore is the registry alone with its storage_file: it starts from a
\* file left by an earlier run, its methods are called from outside, the
\* disk may begin and stop failing, and the process may be killed.
MaxCalls == 1

\* Tasks of an earlier run, as tasks.json lists them.  "archived" is not a
\* value of TaskStatus.
OldIds == {101, 102}
OldStatus == {COMPLETED, "archived"}

OldRecord(id, status) ==
  [task_id     |-> id,
   cos_path    |-> RefMixed,
   prompt      |-> "p",
   status      |-> status,
   progress    |-> 100,
   message     |-> "done",
   error       |-> NULL,
   result_file |-> "merged.txt",
   cache_used  |-> TRUE]

InitialDocs ==
  {NoFile}
    \cup {Document(<< OldRecord(101, s) >>) : s \in OldStatus}
    \cup {Document(<< OldRecord(101, s), OldRecord(102, u) >>) :
            s \in OldStatus, u \in OldStatus}

\* TaskManager.__init__: self.tasks = {} and then _load_tasks().
InitStore ==
  /\ doc \in InitialDocs
  /\ tasks = LoadTasks(doc)
  /\ cache = [d \in CacheDirs |-> {}]
  /\ runner = [t \in TaskIds |-> IdleRunner]
  /\ obs = [t \in TaskIds |-> NoObs]
  /\ env = "up"
  /\ last = NoCall
  /\ upd = NoUpdate
  /\ req = NoRequest
  /\ merge = NoMerge
  /\ batch = NoBatch

\* The ids update_task is called with: 0 is the id of no task.
UnknownId == 0
CallIds == TaskIds \cup OldIds \cup {UnknownId}

\* The arguments update_task is called with.
CallArgs ==
  {[status |-> FAILED, error |-> "boom"],
   [progress |-> 0, cache_used |-> FALSE],
   [status |-> NULL, progress |-> 50, message |-> ""],
   [status |-> COMPLETED, progress |-> 100, result_file |-> "out.txt", error |-> NULL]}

\* Mutant: the early return for an unknown id is missing from the save, which
\* runs whether or not the task exists.
UpdateCallSavesAlways(id, kw) ==
  /\ env # "dead"
  /\ last.calls < MaxCalls
  /\ Commit(UpdateTask(tasks, id, kw))
  /\ last' = [NoCall EXCEPT !.op = "update_task", !.id = id, !.kw = kw,
                            !.saved = (env = "up"),
                            !.calls = last.calls + 1]
  /\ UNCHANGED << cache, runner, obs, env, side >>

\* update_task(task_id, **kw) called from outside the runner.
UpdateCall(id, kw) ==
  /\ env # "dead"
  /\ last.calls < MaxCalls
  /\ IF id \in DOMAIN tasks
       THEN Commit(UpdateTask(tasks, id, kw))
       ELSE UNCHANGED << tasks, doc >>
  /\ last' = [NoCall EXCEPT !.op = "update_task", !.id = id, !.kw = kw,
                            !.saved = (id \in DOMAIN tasks /\ env = "up"),
                            !.calls = last.calls + 1]
  /\ UNCHANGED << cache, runner, obs, env, side >>

\* The parameters of create_task after self.
CreateTaskParams == << "cos_path", "prompt" >>

ErrType == "TypeError: create_task() takes 3 positional arguments but 5 were given"

\* create_analysis: a body that lacks cos_path or prompt (None and "" are
\* both falsy) is answered 400 at lines 71-75.  Otherwise line 77 calls
\* task_manager.create_task(cos_path, prompt, force_reanalyze, name): a call
\* with more positional arguments than parameters raises TypeError before
\* the body of create_task runs, and the except clause answers 500.
TooManyArgs(args) == Len(args) > Len(CreateTaskParams)

MissingParam(cos_path, prompt) == cos_path = << >> \/ prompt = ""

CreateAnalysis(cos_path, prompt, force_reanalyze, name) ==
  /\ env # "dead"
  /\ ~MissingParam(cos_path, prompt) =>
        TooManyArgs(<< cos_path, prompt, force_reanalyze, name >>)
  /\ last' = [NoCall EXCEPT
         !.op = "create_analysis",
         !.kw = [cos_path |-> cos_path, prompt |-> prompt,
                 force_reanalyze |-> force_reanalyze, name |-> name],
         !.raised = IF MissingParam(cos_path, prompt) THEN NULL ELSE ErrType,
         !.code = IF MissingParam(cos_path, prompt) THEN 400 ELSE 500,
         !.body = [error |-> IF MissingParam(cos_path, prompt)
                               THEN "missing parameter" ELSE ErrType],
         !.calls = last.calls]
  /\ UNCHANGED << tasks, doc, cache, runner, obs, env, side >>

\* The disk begins or stops failing: open() raises, or the write raises
\* after the file was opened for writing.
DiskChange(e) ==
  /\ env # "dead"
  /\ e # env
  /\ env' = e
  /\ UNCHANGED << tasks, cache, runner, obs, doc, last, side >>

\* create_task in a process that is killed inside _save_tasks, after
\* open(storage_file, 'w') emptied the file and before json.dump has
\* written the document: the file is left empty or cut off.
CreateTaskKilled(cos_path, prompt) ==
  LET task_id == Cardinality(DOMAIN tasks \cap TaskIds) + 1
  IN  /\ env = "up"
      /\ task_id \in TaskIds
      /\ tasks' = (task_id :> NewTask(task_id, cos_path, prompt)) @@ tasks
      /\ doc' = Truncated
      /\ env' = "dead"
      /\ last' = [NoCall EXCEPT !.op = "create_task",
                                !.kw = [cos_path |-> cos_path, prompt |-> prompt],
                                !.calls = last.calls]
      /\ UNCHANGED << cache, runner, obs, side >>

Names == {"n"}

NextStore ==
  \/ \E p \in Prompts : CreateTask(RefMixed, p)
  \/ \E id \in CallIds, kw \in CallArgs : UpdateCall(id, kw)
  \/ \E p \in Prompts, f \in BOOLEAN, n \in Names : CreateAnalysis(RefMixed, p, f, n)
  \/ \E e \in {"up", "open_fails", "write_fails"} : DiskChange(e)
  \/ \E p \in Prompts : CreateTaskKilled(RefMixed, p)

SpecStore == InitStore /\ [][NextStore]_vars

\* ------------------------------------------------------------ readers
\* update_task assigns the attributes of the Task one statement at a time,
\* in this order (lines 111-122), inside "with self.lock".
UpdateOrder ==
  << "status", "progress", "message", "error", "result_file", "cache_used" >>

\* Task.to_dict reads the attributes one after the other, in this order.
ToDictOrder ==
  << "task_id", "cos_path", "prompt", "status", "progress", "message",
     "error", "result_file", "cache_used" >>

\* The update_task calls of a run of process_task, in the order it makes
\* them: a run on a cache, a run that downloads two files, and a run that
\* the size guard ends.
CacheRun ==
  << [status |-> DOWNLOADING, progress |-> 10, message |-> "using local cache",
      cache_used |-> TRUE],
     [status |-> ANALYZING, progress |-> 40, message |-> "analysing"],
     [status |-> FAILED, message |-> "task failed", error |-> ErrAttribute] >>

FetchRun ==
  << [status |-> DOWNLOADING, progress |-> 10, message |-> "downloading"],
     [progress |-> DownloadProgress(1, 2), message |-> "download 1/2"],
     [progress |-> DownloadProgress(2, 2), message |-> "download 2/2"],
     [status |-> ANALYZING, progress |-> 40, message |-> "analysing"],
     [status |-> FAILED, message |-> "task failed", error |-> ErrAttribute] >>

GuardRun ==
  << [status |-> DOWNLOADING, progress |-> 10, message |-> "using local cache",
      cache_used |-> TRUE],
     [status |-> FAILED, progress |-> 0, message |-> "too many images",
      error |-> ErrTooMany] >>

RunnerScripts == {CacheRun, FetchRun, GuardRun}

\* One task, created and saved; its runner is about to make the calls of
\* one of the scripts.
InitRead ==
  /\ tasks = (1 :> NewTask(1, RefMixed, "p"))
  /\ doc = Document(Snapshot(tasks))
  /\ cache = [d \in CacheDirs |-> {}]
  /\ runner = [t \in TaskIds |-> IdleRunner]
  /\ obs = [t \in TaskIds |-> NoObs]
  /\ env = "up"
  /\ last = NoCall
  /\ upd \in {[NoUpdate EXCEPT !.script = sc] : sc \in RunnerScripts}
  /\ req = NoRequest
  /\ merge = NoMerge
  /\ batch = NoBatch

\* update_task, line 106-109: the runner thread takes the lock and finds
\* the task.
UpdateEnter ==
  /\ upd.id = NoId
  /\ upd.done < Len(upd.script)
  /\ upd' = [upd EXCEPT !.id = 1, !.kw = upd.script[upd.done + 1], !.at = 1]
  /\ UNCHANGED << tasks, cache, runner, obs, doc, env, last, req, merge, batch >>

\* update_task, lines 111-122: the next "if ...: task.x = x" statement.
UpdateAssign ==
  /\ upd.id # NoId
  /\ upd.at \in DOMAIN UpdateOrder
  /\ LET k == UpdateOrder[upd.at]
     IN  tasks' = IF Supplied(upd.kw, k)
                    THEN [tasks EXCEPT ![upd.id][k] = upd.kw[k]]
                    ELSE tasks
  /\ upd' = [upd EXCEPT !.at = @ + 1]
  /\ UNCHANGED << cache, runner, obs, doc, env, last, req, merge, batch >>

\* update_task, lines 124-125: _save_tasks, and the lock is released.
UpdateLeave ==
  /\ upd.id # NoId
  /\ upd.at = Len(UpdateOrder) + 1
  /\ doc' = SaveTasks(tasks)
  /\ upd' = [upd EXCEPT !.id = NoId, !.kw = << >>, !.at = 0, !.done = @ + 1]
  /\ UNCHANGED << tasks, cache, runner, obs, env, last, req, merge, batch >>

\* get_analysis_status, line 114: get_task takes the lock, looks the id up
\* and returns the Task object itself; the lock is released on return.
GetTask(id) ==
  /\ req.pc \in {"idle", "done"}
  /\ upd.id = NoId
  /\ id \in DOMAIN tasks
  /\ req' = [pc |-> "to_dict", id |-> id, at |-> 1, seen |-> << >>]
  /\ UNCHANGED << tasks, cache, runner, obs, doc, env, last, upd, merge, batch >>

\* get_analysis_status, line 119: task.to_dict() reads the next attribute
\* of that object, without the lock; after the last one the dict is the
\* response.
ToDictRead ==
  /\ req.pc = "to_dict"
  /\ LET k == ToDictOrder[req.at]
     IN  req' = [req EXCEPT
                   !.seen = (k :> tasks[req.id][k]) @@ @,
                   !.at = @ + 1,
                   !.pc = IF req.at = Len(ToDictOrder) THEN "done" ELSE @]
  /\ UNCHANGED << tasks, cache, runner, obs, doc, env, last, upd, merge, batch >>

NextRead ==
  \/ UpdateEnter
  \/ UpdateAssign
  \/ UpdateLeave
  \/ \E id \in TaskIds : GetTask(id)
  \/ ToDictRead

SpecRead == InitRead /\ [][NextRead]_vars

\* ------------------------------------------------------------ routes
MaxListed == 25

\* The registry the routes are called on: loaded at startup from a document
\* of n records, whose statuses run through the six values.
StatusCycle == << PENDING, DOWNLOADING, ANALYZING, MERGING, COMPLETED, FAILED >>

ListedRecord(id) ==
  LET st == StatusCycle[(id % Len(StatusCycle)) + 1]
  IN  [task_id     |-> id,
       cos_path    |-> RefMixed,
       prompt      |-> "p",
       status      |-> st,
       progress    |-> IF st = COMPLETED THEN 100 ELSE 0,
       message     |-> "",
       error       |-> IF st = FAILED THEN ErrStorage ELSE NULL,
       result_file |-> IF st = COMPLETED THEN "merged.txt" ELSE NULL,
       cache_used  |-> FALSE]

\* task.created_at of the listed tasks: distinct clock readings, in an order
\* that is not the order of the ids.
CreatedAt(id) == (id * 7) % 101

InitApi ==
  /\ \E n \in 0..MaxListed :
        /\ doc = Document([i \in 1..n |-> ListedRecord(i)])
        /\ tasks = LoadTasks(doc)
  /\ cache = [d \in CacheDirs |-> {}]
  /\ runner = [t \in TaskIds |-> IdleRunner]
  /\ obs = [t \in TaskIds |-> NoObs]
  /\ env = "up"
  /\ last = NoCall
  /\ upd = NoUpdate
  /\ req = NoRequest
  /\ merge = NoMerge
  /\ batch = NoBatch

\* tasks.sort(key=lambda t: t.created_at, reverse=True) on tasks whose
\* created_at differ: the i-th element has i - 1 later tasks before it.
SortByCreatedDesc(S) ==
  [i \in 1..Cardinality(S) |->
     CHOOSE x \in S :
       Cardinality({y \in S : CreatedAt(y) > CreatedAt(x)}) = i - 1]

\* seq[start:end] for 0 <= start <= end: the end is clamped to the length.
Slice(seq, start, end) ==
  SubSeq(seq, start + 1, IF end < Len(seq) THEN end ELSE Len(seq))

\* "if status_filter:" and TaskStatus(status_filter): the empty string
\* (and None) means no filter; any other text must be a status value.
\* Mutant: a filter that is no status value is taken for no filter.
BadFilterIgnored(status_filter) == FALSE

BadFilter(status_filter) == status_filter # "" /\ status_filter \notin TaskStatus

Matching(ts, status_filter) ==
  {id \in DOMAIN ts : status_filter = "" \/ ts[id].status = status_filter}

\* Mutant: the page number is taken as zero-based.
StartIndexZeroBased(page, page_size) == page * page_size

\* start_index = (page - 1) * page_size
StartIndex(page, page_size) == (page - 1) * page_size

Error(code, text) == [code |-> code, body |-> [error |-> text]]

\* list_tasks, lines 154-209; limit None and limit 0 are both falsy.
ListResponse(ts, status_filter, page, page_size, limit) ==
  IF page < 1 THEN Error(400, "page must be positive")
  ELSE IF page_size < 1 THEN Error(400, "page_size must be positive")
  ELSE IF page_size > 100 THEN Error(400, "page_size must not exceed 100")
  ELSE IF BadFilter(status_filter) THEN Error(400, "invalid status")
  ELSE
    LET sorted == SortByCreatedDesc(Matching(ts, status_filter))
        total == Len(sorted)
        dicts(ids) == [i \in DOMAIN ids |-> ToDict(ts[ids[i]])]
    IN  IF limit > 0
          THEN [code |-> 200,
                body |-> [tasks |-> dicts(Slice(sorted, 0, limit)),
                          total |-> total, page |-> 1, page_size |-> limit,
                          total_pages |-> 1]]
          ELSE LET start_index == StartIndex(page, page_size)
                   end_index == start_index + page_size
               IN  [code |-> 200,
                    body |-> [tasks |-> dicts(Slice(sorted, start_index, end_index)),
                              total |-> total, page |-> page,
                              page_size |-> page_size,
                              total_pages |-> (total + page_size - 1) \div page_size]]

ListTasks(status_filter, page, page_size, limit) ==
  /\ env # "dead"
  /\ LET r == ListResponse(tasks, status_filter, page, page_size, limit)
     IN  last' = [NoCall EXCEPT
                    !.op = "list_tasks",
                    !.kw = [status |-> status_filter, page |-> page,
                            page_size |-> page_size, limit |-> limit],
                    !.code = r.code, !.body = r.body, !.calls = last.calls]
  /\ UNCHANGED << tasks, doc, cache, runner, obs, env, side >>

ErrName == "AttributeError: 'Task' object has no attribute 'name'"

\* search_tasks_by_name, lines 243-274: the comprehension at line 249 reads
\* t.name of the first task, which Task does not define, so on a registry
\* that holds a task the except clause answers 500; on an empty registry
\* the filter is checked and the answer is an empty list.
SearchResponse(ts, name, status_filter, limit) ==
  IF DOMAIN ts # {} THEN Error(500, ErrName)
  ELSE IF BadFilter(status_filter) THEN Error(400, "invalid status")
  ELSE [code |-> 200, body |-> [name |-> name, tasks |-> << >>, total |-> 0]]

SearchTasksByName(name, status_filter, limit) ==
  /\ env # "dead"
  /\ LET r == SearchResponse(tasks, name, status_filter, limit)
     IN  last' = [NoCall EXCEPT
                    !.op = "search_tasks_by_name",
                    !.kw = [name |-> name, status |-> status_filter,
                            limit |-> limit],
                    !.raised = IF r.code = 500 THEN ErrName ELSE NULL,
                    !.code = r.code, !.body = r.body, !.calls = last.calls]
  /\ UNCHANGED << tasks, doc, cache, runner, obs, env, side >>

\* get_analysis_status, lines 114-117, for an id get_task does not find.
GetTaskNotFound(id) ==
  /\ env # "dead"
  /\ upd.id = NoId
  /\ id \notin DOMAIN tasks
  /\ last' = [NoCall EXCEPT !.op = "get_analysis_status", !.id = id,
                            !.code = 404, !.body = [error |-> "no such task"],
                            !.calls = last.calls]
  /\ UNCHANGED << tasks, doc, cache, runner, obs, env, side >>

\* get_analysis_result, lines 295-335; exists is what os.path.exists
\* answers for the result file.
ResultResponse(ts, id, exists) ==
  IF id \notin DOMAIN ts THEN Error(404, "no such task")
  ELSE IF ts[id].status # COMPLETED THEN Error(400, "task not completed")
  ELSE IF ts[id].result_file \in {NULL, ""} \/ ~exists
         THEN Error(404, "no result file")
  ELSE [code |-> 200,
        body |-> [task_id |-> id, status |-> ts[id].status,
                  result_file |-> ts[id].result_file]]

GetAnalysisResult(id, exists) ==
  /\ env # "dead"
  /\ LET r == ResultResponse(tasks, id, exists)
     IN  last' = [NoCall EXCEPT !.op = "get_analysis_result", !.id = id,
                               !.kw = [exists |-> exists],
                               !.code = r.code, !.body = r.body,
                               !.calls = last.calls]
  /\ UNCHANGED << tasks, doc, cache, runner, obs, env, side >>

\* The arguments the requests are made with.
Filters == {"", COMPLETED, FAILED, "bogus"}
Pages == 0..4
PageSizes == {0, 1, 7, 10, 100, 101}
Limits == {0, 3}
RequestIds == {UnknownId, 1, 5, MaxListed}
Bodies == {<< << >>, "p" >>, << RefMixed, "" >>, << RefMixed, "p" >>}

\* No request has been made yet: a behaviour serves one request.
Fresh == last.op = "none" /\ req.pc = "idle"

NextApi ==
  \/ \E f \in Filters, p \in Pages, s \in PageSizes, l \in Limits :
        Fresh /\ ListTasks(f, p, s, l)
  \/ \E n \in Names, f \in Filters, l \in Limits :
        Fresh /\ SearchTasksByName(n, f, l)
  \/ \E b \in Bodies, f \in BOOLEAN, n \in Names :
        Fresh /\ CreateAnalysis(b[1], b[2], f, n)
  \/ \E id \in RequestIds : Fresh /\ GetTaskNotFound(id)
  \/ \E id \in RequestIds : Fresh /\ GetTask(id)
  \/ ToDictRead
  \/ \E id \in RequestIds, e \in BOOLEAN : Fresh /\ GetAnalysisResult(id, e)

SpecApi == InitApi /\ [][NextApi]_vars

\* ------------------------------------------------------------ stage 3
\* A text is a sequence of characters; "".join(chunks) concatenates.
RECURSIVE Join(_)
Join(chunks) == IF chunks = << >> THEN << >> ELSE Head(chunks) \o Join(Tail(chunks))

\* What the model service would deliver: a stream of one to three chunks,
\* and the text of a non-streaming answer.
StreamAnswers ==
  { << << "a" >> >>,
    << << "a" >>, << "b" >> >>,
    << << "a" >>, << "b" >>, << "c" >> >> }

PlainAnswers == { << "a", "b" >>, << "z" >> }

ErrNoData == "ValueError: no valid JSON data"
ErrModel  == "model call failed"

InitMerge ==
  /\ tasks = << >>
  /\ cache = [d \in CacheDirs |-> {}]
  /\ runner = [t \in TaskIds |-> IdleRunner]
  /\ obs = [t \in TaskIds |-> NoObs]
  /\ doc = NoFile
  /\ env = "up"
  /\ last = NoCall
  /\ upd = NoUpdate
  /\ req = NoRequest
  /\ batch = NoBatch
  /\ merge \in {[NoMerge EXCEPT !.jsons = n, !.stream = st, !.plain = pl] :
                   n \in 0..2, st \in StreamAnswers, pl \in PlainAnswers}

MergeFrame ==
  UNCHANGED << tasks, cache, runner, obs, doc, env, last, upd, req, batch >>

\* Lines 589-627: the JSON files are read and merged; with no valid data
\* ValueError is raised; otherwise the merged file is written and uploaded
\* and generate_content_stream is called.
MergeCall ==
  /\ merge.pc = "idle"
  /\ merge' = IF merge.jsons = 0
                THEN [merge EXCEPT !.pc = "raised", !.raised = ErrNoData]
                ELSE [merge EXCEPT !.pc = "streaming", !.streams = @ + 1]
  /\ MergeFrame

\* Lines 629-632: the loop takes the next chunk off the stream.
StreamChunk ==
  /\ merge.pc = "streaming"
  /\ Len(merge.chunks) < Len(merge.stream)
  /\ merge' = [merge EXCEPT !.chunks = Append(@, merge.stream[Len(@) + 1])]
  /\ MergeFrame

\* The stream is exhausted: the loop ends and the try block is left.
StreamEnd ==
  /\ merge.pc = "streaming"
  /\ Len(merge.chunks) = Len(merge.stream)
  /\ merge' = [merge EXCEPT !.pc = "write"]
  /\ MergeFrame

\* The streaming call, or the iteration over it, raises before the stream
\* is complete: control goes to the except clause at line 634.
StreamFails ==
  /\ merge.pc = "streaming"
  /\ Len(merge.chunks) < Len(merge.stream)
  /\ merge' = [merge EXCEPT !.pc = "fallback"]
  /\ MergeFrame

\* Lines 637-647: generate_content is called once; its text is appended to
\* chunks.  If it raises, the exception leaves merge_and_analyze_json.
PlainCall(ok) ==
  /\ merge.pc = "fallback"
  /\ merge' = IF ok
                THEN [merge EXCEPT !.pc = "write", !.plains = @ + 1,
                                   !.chunks = Append(@, merge.plain)]
                ELSE [merge EXCEPT !.pc = "raised", !.plains = @ + 1,
                                   !.raised = ErrModel]
  /\ MergeFrame

\* Lines 649-664: final_output = "".join(chunks) is written to output_file
\* and returned.
WriteOutput ==
  /\ merge.pc = "write"
  /\ merge' = [merge EXCEPT !.pc = "returned", !.output = Join(merge.chunks)]
  /\ MergeFrame

NextMerge ==
  \/ MergeCall
  \/ StreamChunk
  \/ StreamEnd
  \/ StreamFails
  \/ \E ok \in BOOLEAN : PlainCall(ok)
  \/ WriteOutput

SpecMerge == InitMerge /\ [][NextMerge]_vars

\* ------------------------------------------------------------ stage 2
\* An image in the cache directory: dir is its sub-directory ("" for the
\* directory itself), name its file name without the extension.
Image(dir, name) == [dir |-> dir, name |-> name]

\* The lists get_cached_png_files can hand to stage 2: sorted by path.
ImageLists ==
  { << Image("", "x") >>,
    << Image("a", "x"), Image("a", "y") >>,
    << Image("a", "x"), Image("b", "x") >>,
    << Image("a", "x"), Image("", "x") >>,
    << Image("a", "x"), Image("b", "x"), Image("b", "y") >> }

\* Lines 492-494: json_filename is the base name of the image with the
\* extension replaced, and json_path joins it to output_dir: the
\* sub-directory of the image is not part of it.
JsonPath(image_path) == [dir |-> "", name |-> image_path.name]

\* What the try block of one iteration can meet.
ItemOutcomes == {"ok", "analysis_fails", "upload_fails"}

InitBatch ==
  /\ tasks = << >>
  /\ cache = [d \in CacheDirs |-> {}]
  /\ runner = [t \in TaskIds |-> IdleRunner]
  /\ obs = [t \in TaskIds |-> NoObs]
  /\ doc = NoFile
  /\ env = "up"
  /\ last = NoCall
  /\ upd = NoUpdate
  /\ req = NoRequest
  /\ merge = NoMerge
  /\ batch \in {[NoBatch EXCEPT !.image_paths = l, !.force = f, !.files = fs] :
                   l \in ImageLists, f \in BOOLEAN,
                   fs \in {{}, {JsonPath(Image("", "x"))}}}

BatchFrame ==
  UNCHANGED << tasks, cache, runner, obs, doc, env, last, upd, req, merge >>

\* Lines 482-485: the call enters the loop.
BatchCall ==
  /\ batch.pc = "idle"
  /\ batch' = [batch EXCEPT !.pc = "loop", !.i = 1]
  /\ BatchFrame

\* Lines 487-562, one iteration: an image whose JSON file exists is skipped
\* unless force_reanalyze, and the path of that file is appended; otherwise
\* analyze_image is called, its result is written to json_path, uploaded,
\* and the path is appended.  An exception ends the iteration only.
BatchItem(outcome) ==
  /\ batch.pc = "loop"
  /\ batch.i <= Len(batch.image_paths)
  /\ LET image_path == batch.image_paths[batch.i]
         json_path == JsonPath(image_path)
     IN  IF json_path \in batch.files /\ ~batch.force
           THEN batch' = [batch EXCEPT !.json_files = Append(@, json_path),
                                       !.i = @ + 1]
           ELSE batch' = [batch EXCEPT
                  !.analyzed = Append(@, image_path),
                  !.files = IF outcome = "analysis_fails"
                              THEN @ ELSE @ \cup {json_path},
                  !.json_files = IF outcome = "ok"
                                   THEN Append(@, json_path) ELSE @,
                  !.i = @ + 1]
  /\ BatchFrame

\* Lines 563-564: the loop is over and json_files is returned.
BatchReturn ==
  /\ batch.pc = "loop"
  /\ batch.i > Len(batch.image_paths)
  /\ batch' = [batch EXCEPT !.pc = "returned"]
  /\ BatchFrame

NextBatch ==
  \/ BatchCall
  \/ \E o \in ItemOutcomes : BatchItem(o)
  \/ BatchReturn

SpecBatch == InitBatch /\ [][NextBatch]_vars

\* ------------------------------------------------------------ restart
\* The thread of a task of an earlier process: threads are daemons and end
\* with the process, and nothing creates one for a task read from the file.
LostRunner == [pc |-> "lost", i |-> 0, png_files |-> << >>]

\* The task file an earlier process may have left: none, or one record in a
\* status that is not terminal.
UnfinishedStatus == {PENDING, DOWNLOADING, ANALYZING, MERGING}

UnfinishedRecord(id, status) ==
  [OldRecord(id, status) EXCEPT !.progress = 50, !.message = "working",
                                !.result_file = NULL, !.cache_used = FALSE]

RestartDocs ==
  {NoFile} \cup {Document(<< UnfinishedRecord(101, s) >>) : s \in UnfinishedStatus}

InitRestart ==
  /\ doc \in RestartDocs
  /\ tasks = LoadTasks(doc)
  /\ cache = [d \in CacheDirs |-> {}]
  /\ runner = [t \in TaskIds |-> IdleRunner]
  /\ obs = [t \in TaskIds |-> NoObs]
  /\ env = "up"
  /\ last = NoCall
  /\ upd = NoUpdate
  /\ req = NoRequest
  /\ merge = NoMerge
  /\ batch = NoBatch

\* Mutant: create_app starts a runner for every loaded task that is not in
\* a terminal status.
CreateAppResumes ==
  /\ tasks # << >>
  /\ tasks' = LoadTasks(doc)
  /\ runner' = [t \in TaskIds |->
                  IF t \in DOMAIN tasks
                    THEN IF tasks[t].status \in UnfinishedStatus
                           THEN [IdleRunner EXCEPT !.pc = "start"]
                           ELSE LostRunner
                    ELSE IdleRunner]
  /\ UNCHANGED << cache, obs, doc, env, last, side >>

\* The process ends at any moment and create_app runs in a new one:
\* TaskManager.__init__ reads the registry from the task file, a
\* TaskProcessor is constructed around it and the routes are registered.
\* start_task is not called: the threads of the old process are gone and
\* the loaded tasks get none.  The cache directories stay on the disk.
CreateApp ==
  /\ tasks # << >>
  /\ tasks' = LoadTasks(doc)
  /\ runner' = [t \in TaskIds |->
                  IF t \in DOMAIN tasks THEN LostRunner ELSE IdleRunner]
  /\ UNCHANGED << cache, obs, doc, env, last, side >>

\* The requests of the service next to the restart: create_analysis as the
\* build answers it, and the two calls it was written to make, create_task
\* (line 77) and start_task for the id that call returned (line 80).
NextRestart ==
  \/ \E r \in SmallRefs, p \in Prompts : CreateTask(r, p)
  \/ \E t \in TaskIds : StartTask(t)
  \/ \E t \in TaskIds : RunnerStep(t)
  \/ \E p \in Prompts, f \in BOOLEAN, n \in Names : CreateAnalysis(RefMixed, p, f, n)
  \/ CreateApp

SpecRestart == InitRestart /\ [][NextRestart]_vars

\* ------------------------------------------------------------ claims
Terminal == {COMPLETED, FAILED}

Rank(status) ==
  CASE status = PENDING     -> 0
    [] status = DOWNLOADING -> 1
    [] status = ANALYZING   -> 2
    [] status = MERGING     -> 3
    [] status = COMPLETED   -> 4
    [] OTHER                -> 5

\* A change of status the state machine allows: forward in the pipeline
\* order, or to FAILED from a state that is not terminal.
Forward(a, b) ==
  /\ a \notin Terminal
  /\ \/ b = FAILED
     \/ Rank(a) < Rank(b)

StatusStepOk(t) ==
  \/ tasks'[t].status = tasks[t].status
  \/ Forward(tasks[t].status, tasks'[t].status)

StartsPending == \A t \in DOMAIN tasks' \ DOMAIN tasks : tasks'[t].status = PENDING

\* C1 (as stated): every task starts PENDING and every change of its status,
\* whoever calls update, moves forward in the pipeline order or goes to
\* FAILED; nothing changes the status of a COMPLETED or FAILED task.
C1_StatusMonotoneAnyCaller ==
  [][StartsPending /\ \A t \in DOMAIN tasks : StatusStepOk(t)]_vars

\* C1 (amended): every task starts PENDING, and while the runner started for
\* it is the only caller of update on it, every change of its status moves
\* forward in the pipeline order or goes to FAILED and a COMPLETED or FAILED
\* status is never changed again.
C1_StatusMonotoneRunner ==
  [][StartsPending /\ \A t \in DOMAIN tasks : ~obs'[t].external => StatusStepOk(t)]_vars

C1_Witness ==
  \E t \in DOMAIN tasks :
    /\ tasks[t].status = FAILED
    /\ obs[t].stage2
    /\ runner[t].pc = "done"
    /\ ~obs[t].external

\* C2: in every reachable state of the registry, a task has a result_file
\* exactly when its status is COMPLETED.
C2_ResultIffCompleted ==
  \A t \in DOMAIN tasks : (tasks[t].result_file # NULL) <=> (tasks[t].status = COMPLETED)

C2_Witness ==
  \E t \in DOMAIN tasks :
    /\ runner[t].pc = "done"
    /\ obs[t].stage2
    /\ tasks[t].status = FAILED
    /\ tasks[t].result_file = NULL

\* C3: under fair scheduling every started runner ends, and a runner that
\* has ended has left its task COMPLETED or FAILED.
C3_RunnerEndsTerminal ==
  /\ [](\A t \in DOMAIN tasks : runner[t].pc = "done" => tasks[t].status \in Terminal)
  /\ \A t \in TaskIds :
       (runner[t].pc = "start") ~> (runner[t].pc = "done" /\ tasks[t].status \in Terminal)

C3_Witness ==
  \E t \in DOMAIN tasks : runner[t].pc = "done" /\ tasks[t].status \in Terminal

\* C4: an exception raised in any stage ends the run through the except
\* clause: exactly one update, which leaves the task FAILED with the text
\* of the exception as its error.
C4_ExceptionBecomesFailed ==
  \A t \in DOMAIN tasks :
    /\ obs[t].handled <= 1
    /\ (obs[t].raised # NULL) <=> (obs[t].handled = 1)
    /\ obs[t].raised # NULL =>
         /\ runner[t].pc = "done"
         /\ tasks[t].status = FAILED
         /\ tasks[t].error # NULL
         /\ tasks[t].error = obs[t].raised

C4_Witness ==
  /\ \E t \in DOMAIN tasks : obs[t].raised = ErrStorage /\ tasks[t].status = FAILED
  /\ \E t \in DOMAIN tasks : obs[t].raised = ErrAttribute /\ tasks[t].status = FAILED

\* C5: a run whose stage 1 obtained more than 30 PNG files, from the cache
\* or from the fetch, ends FAILED with progress 0 and an error and never
\* begins stage 2 nor constructs the analyzer; a run whose stage 1 obtained
\* exactly 30 passes the guard and begins stage 2.
C5_SizeGuard ==
  \A t \in DOMAIN tasks :
    /\ obs[t].yield = "over" =>
         /\ ~obs[t].stage2
         /\ ~obs[t].analyzer
         /\ obs[t].analyzed = {}
         /\ runner[t].pc \in {"guard", "done"}
         /\ runner[t].pc = "done" =>
              /\ tasks[t].status = FAILED
              /\ tasks[t].progress = 0
              /\ tasks[t].error # NULL
    /\ obs[t].yield = "limit" =>
         /\ runner[t].pc \in {"guard", "stage2", "done"}
         /\ runner[t].pc # "guard" => obs[t].stage2

C5_Witness ==
  \E t, u \in DOMAIN tasks :
    /\ obs[t].yield = "over" /\ obs[t].path = "fetch" /\ runner[t].pc = "done"
    /\ obs[u].yield = "limit" /\ obs[u].path = "cache" /\ obs[u].stage2

\* C6: the progress of a task never decreases, except in the update of the
\* size guard, which resets it to 0; the values the analysis callback
\* computes lie between the 40 of the stage-2 update and the 80 of the
\* stage-3 update and do not decrease from one item to the next.
SizeGuardReset(t) ==
  /\ obs[t].yield = "over"
  /\ tasks'[t].status = FAILED
  /\ tasks'[t].progress = 0

AnalyzeProgressMonotone ==
  \A total \in 1..MaxImages : \A i \in 1..total :
    /\ 40 <= AnalyzeProgress(i, total)
    /\ AnalyzeProgress(i, total) <= 80
    /\ i < total => AnalyzeProgress(i, total) <= AnalyzeProgress(i + 1, total)

C6_ProgressMonotone ==
  /\ [](AnalyzeProgressMonotone)
  /\ [][\A t \in DOMAIN tasks :
          tasks'[t].progress >= tasks[t].progress \/ SizeGuardReset(t)]_vars

C6_Witness ==
  /\ \E t \in DOMAIN tasks :
       obs[t].path = "fetch" /\ tasks[t].progress = 40 /\ tasks[t].status = FAILED
  /\ \E t \in DOMAIN tasks :
       obs[t].yield = "over" /\ tasks[t].progress = 0 /\ tasks[t].status = FAILED

\* C7: cache_used is true exactly for the tasks whose stage 1 took the
\* cache path; a task whose cache directory held PNG files (the files
\* get_cached_png_files lists) when its stage 1 began reports cache_used
\* and never calls download_files.
C7_CacheUsed ==
  \A t \in DOMAIN tasks :
    /\ tasks[t].cache_used <=> obs[t].path = "cache"
    /\ obs[t].held => tasks[t].cache_used /\ obs[t].fetches = 0

\* C10: a run on the fetch path whose fetch returned no PNG file ends FAILED
\* with an error, never begins stage 2 nor constructs the analyzer, and
\* calls download_files once.
C10_EmptyFetchFails ==
  \A t \in DOMAIN tasks :
    /\ obs[t].fetches <= 1
    /\ (obs[t].path = "fetch" /\ obs[t].yield = "empty") =>
         /\ runner[t].pc = "done"
         /\ tasks[t].status = FAILED
         /\ tasks[t].error # NULL
         /\ ~obs[t].stage2
         /\ ~obs[t].analyzer
         /\ obs[t].fetches = 1

C10_Witness ==
  /\ \E t \in DOMAIN tasks :
       /\ tasks[t].cos_path = RefEmpty
       /\ obs[t].yield = "empty" /\ tasks[t].error = ErrNoPng
  /\ \E t \in DOMAIN tasks :
       /\ tasks[t].cos_path = RefBroken
       /\ obs[t].yield = "empty" /\ tasks[t].error = ErrNoPng

\* ------------------------------------------------------------ stage 2
\* The step in which the call of batch_analyze_images made by the runner
\* of t is over: the analyzer has been constructed and the runner leaves
\* line 119.
Stage2Over(t) ==
  /\ t \in DOMAIN tasks
  /\ runner[t].pc = "stage2"
  /\ runner'[t].pc # "stage2"
  /\ obs'[t].analyzer

Items(t) == {runner[t].png_files[k] : k \in DOMAIN runner[t].png_files}
OutputSet(t) == {obs'[t].output[k] : k \in DOMAIN obs'[t].output}
ArtifactExists(t, f) == JsonFor(f) \in cache[DirOf(t)]

\* C8: when stage 2 of a task is over, there is a value of the task's
\* force flag for which every input item was treated as the skip logic
\* says: with the flag false an item whose artifact existed was not analysed
\* and its artifact is in the stage output, and an item without an artifact
\* was analysed; with the flag true every item was analysed.
C8_SkipLogic ==
  [][\A t \in TaskIds : Stage2Over(t) =>
       \E force \in BOOLEAN : \A f \in Items(t) :
         IF ArtifactExists(t, f) /\ ~force
           THEN f \notin obs'[t].analyzed /\ JsonFor(f) \in OutputSet(t)
           ELSE f \in obs'[t].analyzed]_vars

\* C9: when stage 2 of a task is over, every input item was processed (its
\* analysis was invoked or its existing artifact was taken), whatever became
\* of the other items, and the task was failed by stage 2 exactly if
\* the stage output is empty.
C9_ItemFailureIsLocal ==
  [][\A t \in TaskIds : Stage2Over(t) =>
       /\ \A f \in Items(t) :
            f \in obs'[t].analyzed \/ JsonFor(f) \in OutputSet(t)
       /\ (tasks'[t].status = FAILED) <=> (OutputSet(t) = {})]_vars

\* ------------------------------------------------------------ end to end
\* C11: a run that took the cache path, found between 1 and 30 cached PNG
\* files and met no failure of a collaborator (storage, analyzer) ends with
\* the task COMPLETED, progress 100, cache_used true and a result_file.
C11_EndToEndSuccess ==
  \A t \in DOMAIN tasks :
    ( /\ runner[t].pc = "done"
      /\ obs[t].path = "cache"
      /\ obs[t].yield \in {"under", "limit"}
      /\ obs[t].raised \notin {ErrStorage, ErrAnalyzer} )
    => /\ tasks[t].status = COMPLETED
       /\ tasks[t].progress = 100
       /\ tasks[t].cache_used
       /\ tasks[t].result_file # NULL

\* ------------------------------------------------------------ registry calls
\* A step in which the call op was made on the registry or the front door.
Called(op) == last' # last /\ last'.op = op

\* C12: a create call with (cos_path, prompt, force_reanalyze, name) returns
\* a fresh id; right after it the registry holds a task with that id, the
\* given cos_path, prompt, force_reanalyze and name, status PENDING,
\* progress 0, no error, no result_file and cache_used false; the tasks
\* that existed are unchanged.
C12_CreateStoresTask ==
  [][Called("create_analysis") =>
       /\ last'.raised = NULL
       /\ \E id \in DOMAIN tasks' \ DOMAIN tasks :
            /\ tasks'[id].cos_path = last'.kw.cos_path
            /\ tasks'[id].prompt = last'.kw.prompt
            /\ HasAttr("force_reanalyze") /\ HasAttr("name")
            /\ tasks'[id].status = PENDING
            /\ tasks'[id].progress = 0
            /\ tasks'[id].error = NULL
            /\ tasks'[id].result_file = NULL
            /\ tasks'[id].cache_used = FALSE
       /\ \A u \in DOMAIN tasks : u \in DOMAIN tasks' /\ tasks'[u] = tasks[u]]_vars

\* A step in which create_task, or update_task on a known id, ran while the
\* disk was failing.
WriteFailed ==
  /\ env \in {"open_fails", "write_fails"}
  /\ \/ Called("create_task")
     \/ Called("update_task") /\ last'.id \in DOMAIN tasks

C14_UnknownIdNoOp ==
  [][(Called("update_task") /\ last'.id \notin DOMAIN tasks) =>
       /\ last'.raised = NULL
       /\ tasks' = tasks
       /\ doc' = doc]_vars

C14_Witness ==
  /\ last.op = "update_task"
  /\ last.id \notin DOMAIN tasks
  /\ DOMAIN tasks # {}
  /\ doc.kind = "json"
  /\ LoadTasks(doc) = tasks

\* An argument of the call that was passed and is not None.
PassedNotNone(kw, k) ==
  /\ k \in DOMAIN kw
  /\ k \in {"progress", "cache_used"} \/ kw[k] # NULL

\* C15: update_task on a known id sets exactly the fields passed as not
\* None among status, progress, message, error, result_file and cache_used;
\* every other field of the task, task_id, cos_path and prompt among them,
\* and every other task stay as they were.
C15_UpdateFrame ==
  [][(Called("update_task") /\ last'.id \in DOMAIN tasks) =>
       LET id == last'.id
           kw == last'.kw
       IN  /\ DOMAIN tasks' = DOMAIN tasks
           /\ \A u \in DOMAIN tasks \ {id} : tasks'[u] = tasks[u]
           /\ \A k \in DOMAIN tasks[id] :
                tasks'[id][k] =
                  IF k \in {"status", "progress", "message", "error",
                            "result_file", "cache_used"} /\ PassedNotNone(kw, k)
                    THEN kw[k]
                    ELSE tasks[id][k]]_vars

C15_Witness ==
  /\ last.op = "update_task"
  /\ last.id \in DOMAIN tasks
  /\ last.kw = [progress |-> 0, cache_used |-> FALSE]
  /\ tasks[last.id].progress = 0
  /\ ~tasks[last.id].cache_used
  /\ tasks[last.id].status = COMPLETED
  /\ \E u \in DOMAIN tasks : u # last.id

\* ------------------------------------------------------------ storage
\* C16: right after startup on a document, the registry holds exactly the
\* records of the document whose status is a value of TaskStatus, wherever
\* the other records stand in the list.
C16_LoadDropsOnlyBad ==
  (last = NoCall /\ doc.kind = "json") =>
    LET d == doc.list
        good == {i \in DOMAIN d : d[i].status \in TaskStatus}
    IN  /\ DOMAIN tasks = {d[i].task_id : i \in good}
        /\ \A i \in good : tasks[d[i].task_id] = FromDict(d[i])

\* C17: in every step the storage file is left as it was or becomes the
\* complete snapshot of the registry after the step; a reader never finds
\* an empty or partly written document, a kill during a save included.
C17_OldOrNewSnapshot ==
  [][doc' = doc \/ doc' = Document(Snapshot(tasks'))]_vars

\* The fields of the data model that the model of a task can carry
\* (created_at and updated_at are clock readings, which it does not).
DataModelFields ==
  {"task_id", "cos_path", "prompt", "name", "force_reanalyze", "status",
   "progress", "message", "error", "result_file", "cache_used"}

\* C18: after create_task, or update_task on a known id, returned with the
\* file written, a registry loaded from the file has the ids of the registry
\* in memory and, for each task, the same value of every data-model field.
C18_RoundTrip ==
  (last.op \in {"create_task", "update_task"} /\ last.saved) =>
    LET loaded == LoadTasks(doc)
    IN  /\ DOMAIN loaded = DOMAIN tasks
        /\ \A id \in DOMAIN tasks : \A f \in DataModelFields :
              /\ HasAttr(f)
              /\ f \in DOMAIN tasks[id]
              /\ f \in DOMAIN loaded[id]
              /\ loaded[id][f] = tasks[id][f]

\* ------------------------------------------------------------ cache
\* C19: get_cache_dir is injective: two tasks that name different COS
\* paths have different cache directories.
C19_CacheDirInjective ==
  \A a \in DOMAIN tasks : \A b \in DOMAIN tasks :
    tasks[a].cos_path # tasks[b].cos_path =>
      GetCacheDir(tasks[a].cos_path) # GetCacheDir(tasks[b].cos_path)

\* C20: check_cache_exists answers True exactly for the directories in
\* which get_cached_png_files finds at least one file.
C20_ExistsIffListed ==
  \A r \in SourceRefs :
    CheckCacheExists(GetCacheDir(r)) <=> Len(GetCachedPngFiles(GetCacheDir(r))) > 0

\* ------------------------------------------------------------ readers
\* The task after the first k calls of a script, each applied whole.
RECURSIVE After(_, _)
After(script, k) ==
  IF k = 0 THEN NewTask(1, RefMixed, "p")
  ELSE UpdateFields(After(script, k - 1), script[k])

\* C21: what a status request returns is the task as it was before or after
\* a whole update_task call of the runner, never a mix of the two.
C21_ReadsAreAtomic ==
  req.pc = "done" =>
    \E k \in 0..Len(upd.script) : req.seen = After(upd.script, k)

\* ------------------------------------------------------------ routes
\* The number of tasks the filter of the last request lets through.
Matched == Cardinality(Matching(tasks, last.kw.status))

\* A list request with a valid page, page size and filter and no limit.
PagedRequest ==
  /\ last.op = "list_tasks"
  /\ last.kw.page >= 1
  /\ last.kw.page_size \in 1..100
  /\ last.kw.limit = 0
  /\ ~BadFilter(last.kw.status)

\* C22: such a request returns exactly the matching tasks ranked
\* (p-1)*s+1 .. min(p*s, n) by creation time, latest first, in that order,
\* with total = n and total_pages = ceil(n/s).
C22_Pagination ==
  PagedRequest =>
    LET p == last.kw.page
        s == last.kw.page_size
        n == Matched
        first == (p - 1) * s + 1
        upto == IF p * s < n THEN p * s ELSE n
        out == last.body.tasks
        later(id) == {y \in Matching(tasks, last.kw.status) :
                        CreatedAt(y) > CreatedAt(id)}
    IN  /\ last.code = 200
        /\ Len(out) = (IF upto >= first THEN upto - first + 1 ELSE 0)
        /\ \A i \in DOMAIN out :
              /\ out[i].task_id \in Matching(tasks, last.kw.status)
              /\ Cardinality(later(out[i].task_id)) = first + i - 2
        /\ last.body.total = n
        /\ last.body.total_pages * s >= n
        /\ (last.body.total_pages - 1) * s < n \/ (n = 0 /\ last.body.total_pages = 0)

\* Page 2 of 25 tasks in pages of 10: ranks 11 to 20, three pages.
C22_Witness ==
  /\ PagedRequest
  /\ last.kw.page = 2 /\ last.kw.page_size = 10 /\ Matched = 25
  /\ Len(last.body.tasks) = 10
  /\ last.body.total_pages = 3

\* The request served in this step was an input error: a create request
\* without cos_path or prompt, a status or result request for an unknown
\* id, a result request for a task that is not COMPLETED, or a list or
\* search request whose status filter is no status value.
InputError ==
  /\ last' # last
  /\ \/ /\ last'.op = "create_analysis"
        /\ last'.kw.cos_path = << >> \/ last'.kw.prompt = ""
     \/ /\ last'.op = "get_analysis_status"
        /\ last'.id \notin DOMAIN tasks
     \/ /\ last'.op = "get_analysis_result"
        /\ last'.id \in DOMAIN tasks => tasks[last'.id].status # COMPLETED
     \/ /\ last'.op \in {"list_tasks", "search_tasks_by_name"}
        /\ last'.kw.status \notin TaskStatus \cup {""}

\* C23: an input error is answered with an error status, and the registry,
\* its document, the cache and every runner are as they were before.
C23_InputErrorsChangeNothing ==
  [][InputError =>
       /\ last'.code >= 400
       /\ tasks' = tasks /\ doc' = doc /\ cache' = cache
       /\ runner' = runner /\ obs' = obs]_vars

\* A registry that holds tasks has rejected a result request for a task
\* that is not COMPLETED.
C23_Witness ==
  /\ last.op = "get_analysis_result"
  /\ last.id \in DOMAIN tasks
  /\ tasks[last.id].status # COMPLETED
  /\ last.code = 400
  /\ runner = [t \in TaskIds |-> IdleRunner]

\* ------------------------------------------------------------ stage 3
\* C24: when the streaming call failed before the stream was complete, the
\* chunks received are discarded and one non-streaming call is made: the
\* result written and returned is exactly the non-streaming answer.
C24_FallbackReplacesStream ==
  (merge.pc = "returned" /\ merge.plains > 0) =>
    /\ merge.plains = 1
    /\ merge.output = merge.plain

\* ------------------------------------------------------------ progress
\* The tasks that are downloading on the fetch path.
Fetching == {t \in DOMAIN tasks \cap TaskIds :
               obs[t].path = "fetch" /\ tasks[t].status = DOWNLOADING}

\* analyze_progress gives a value in [40, 80) for every item 1..total.
AnalyzeRangeHalfOpen ==
  \A total \in 1..MaxImages : \A current \in 1..total :
    AnalyzeProgress(current, total) \in 40..79

\* download_progress and analyze_progress give values in [10, 40] and
\* [40, 80], and the upper ends for the last item only.
CallbackRangesClosed ==
  \A total \in 1..MaxImages : \A current \in 1..total :
    /\ DownloadProgress(current, total) \in 10..40
    /\ AnalyzeProgress(current, total) \in 40..80
    /\ DownloadProgress(current, total) = 40 <=> current = total
    /\ AnalyzeProgress(current, total) = 80 <=> current = total

\* C25 as stated: the progress of a task in stage 1 on the fetch path is
\* in [10, 40), and the per-item callback of stage 2 reports a value in
\* [40, 80) for every item, the last one included.
C25_ProgressHalfOpen ==
  /\ \A t \in Fetching : tasks[t].progress \in 10..39
  /\ AnalyzeRangeHalfOpen

\* C25 amended: the ranges are closed, [10, 40] and [40, 80]; the upper
\* ends are reported for the last item and only for it.
C25_ProgressClosed ==
  /\ \A t \in Fetching : tasks[t].progress \in 10..40
  /\ CallbackRangesClosed

\* A task on the fetch path has reported its last file: progress 40 while
\* still DOWNLOADING.
C25_Witness ==
  \E t \in Fetching :
    /\ tasks[t].progress = 40
    /\ runner[t].pc = "fetch_return"

\* ------------------------------------------------------------ shared cache
\* The elements of a sequence.
Range(seq) == {seq[i] : i \in DOMAIN seq}

\* The PNG files of the prefix a task names.
InputsOf(t) ==
  {LocalFile(ListingOf(t)[i]) :
     i \in {j \in DOMAIN ListingOf(t) : ListingOf(t)[j].ext = "png"}}

\* C26: stage 1 of a runner looks only at the cache directory, never at the
\* other runners: it fetches exactly when the directory shows no PNG at that
\* moment, and on the cache path it takes exactly the PNG files that are in
\* the directory at that moment, also while another runner is downloading
\* into it.
C26_NotSerialized ==
  [][\A t \in TaskIds :
       /\ (runner[t].pc = "start" /\ runner'[t].pc # "start") =>
            (runner'[t].pc = "fetch_call" <=> TopLevelPngs(cache[DirOf(t)]) = {})
       /\ (runner[t].pc = "cache_list" /\ runner'[t].pc = "guard") =>
            runner'[t].png_files = SortFiles(AllPngs(cache[DirOf(t)]))]_vars

\* Two tasks name the same prefix; the first is in the middle of its
\* download and the second has taken from the cache a strict subset of the
\* PNG files of the prefix.
C26_Witness ==
  \E t \in DOMAIN tasks, u \in DOMAIN tasks :
    /\ t # u /\ tasks[t].cos_path = tasks[u].cos_path
    /\ obs[t].path = "fetch" /\ runner[t].pc = "download"
    /\ obs[u].path = "cache" /\ runner[u].pc = "guard"
    /\ runner[u].png_files # << >>
    /\ Range(runner[u].png_files) \subseteq InputsOf(u)
    /\ Range(runner[u].png_files) # InputsOf(u)

\* ------------------------------------------------------------ stage 2
\* C27: two different input items never resolve to the same artifact path,
\* and no artifact path occurs twice in the list stage 2 returns.
C27_DistinctArtifacts ==
  batch.pc = "returned" =>
    /\ \A i \in DOMAIN batch.image_paths : \A j \in DOMAIN batch.image_paths :
          i # j => JsonPath(batch.image_paths[i]) # JsonPath(batch.image_paths[j])
    /\ \A i \in DOMAIN batch.json_files : \A j \in DOMAIN batch.json_files :
          i # j => batch.json_files[i] # batch.json_files[j]

\* ------------------------------------------------------------ cache path
\* C28: a runner that took the cache path obtained a non-empty input list;
\* and for every task, if the recursive listing of its cache directory is
\* not empty then the cache check is true, so a run that began on a
\* populated cache never called download_files.
C28_PopulatedCacheIsUsed ==
  \A t \in DOMAIN tasks \cap TaskIds :
    /\ (obs[t].path = "cache" /\ runner[t].pc = "guard") =>
         runner[t].png_files # << >>
    /\ Len(GetCachedPngFiles(DirOf(t))) > 0 => CheckCacheExists(DirOf(t))
    /\ obs[t].held => obs[t].fetches = 0

\* ------------------------------------------------------------ size guard
\* A task on the same prefix as u was failed by the size guard after a
\* fetch.
GuardFailedBefore(u) ==
  \E t \in DOMAIN tasks :
    /\ t # u /\ tasks[t].cos_path = tasks[u].cos_path
    /\ obs[t].path = "fetch" /\ tasks[t].error = ErrTooMany

\* C29: a task that begins stage 1 after such a failure takes the cache
\* path (cache_used true, no fetch) and finds there more files than the
\* size guard admits, so that it is failed by the guard as well; and no
\* task is ever COMPLETED.
C29_GuardFailureSticks ==
  [][\A u \in DOMAIN tasks \cap TaskIds :
       /\ (runner[u].pc = "start" /\ runner'[u].pc # "start"
              /\ GuardFailedBefore(u)) =>
            /\ obs'[u].path = "cache"
            /\ tasks'[u].cache_used
            /\ TooManyImages(GetCachedPngFiles(DirOf(u)))
       /\ ~(obs[u].path = "cache" /\ obs[u].fetches > 0)
       /\ tasks'[u].status # COMPLETED]_vars

\* C30: a runner is started only for a task that create_task has just made
\* in this process (its runner has not run, the task is PENDING at progress
\* 0) and never twice; a task loaded from the task file after a restart, in
\* whatever status it was persisted, stays in the registry without a
\* runner, and its status, progress and result_file never change again.
Loaded(id) == id \in OldIds \/ runner[id].pc = "lost"

C30_LoadedTasksNeverRun ==
  [][\A id \in DOMAIN tasks :
       /\ Loaded(id) =>
            /\ id \in DOMAIN tasks'
            /\ tasks'[id].status = tasks[id].status
            /\ tasks'[id].progress = tasks[id].progress
            /\ tasks'[id].result_file = tasks[id].result_file
            /\ id \in TaskIds => runner'[id].pc = "lost"
       /\ (id \in TaskIds /\ runner[id].pc # "start"
              /\ runner'[id].pc = "start") =>
            /\ runner[id].pc = "idle"
            /\ tasks[id].status = PENDING
            /\ tasks[id].progress = 0
       /\ (id \in TaskIds /\ runner[id].pc # "idle") =>
            runner'[id].pc # "idle"]_vars

\* Witness of C30: the registry holds the MERGING record of the task file
\* and a task whose runner ended with the process while it was DOWNLOADING
\* or ANALYZING, and the runner of a task created after the restart has run
\* to its end.
C30_Witness ==
  /\ 101 \in DOMAIN tasks
  /\ tasks[101].status = MERGING
  /\ \E id \in DOMAIN tasks \cap TaskIds :
       /\ runner[id].pc = "lost"
       /\ tasks[id].status \in {DOWNLOADING, ANALYZING}
  /\ \E u \in DOMAIN tasks \cap TaskIds :
       /\ runner[u].pc = "done"
       /\ tasks[u].status \in Terminal

====
